---- MODULE Spec2Model ----
(***************************************************************************)
(* Backup-extraction and SQL-regeneration scripts of AuditReady-Sw.         *)
(*                                                                         *)
(* Text is modelled as a sequence of tokens.  A token stands for a fixed   *)
(* run of characters; every pattern the scripts search for (markers,       *)
(* separators, the quote, the semicolon, the regex literals) is a whole    *)
(* number of tokens, the quote character and the semicolon are always      *)
(* tokens of their own and no other token contains them, and leading or   *)
(* trailing white space is always a token of its own.  Offsets and        *)
(* lengths are therefore counted in tokens, 0-based as in Python.          *)
(***************************************************************************)
EXTENDS Integers, Sequences, FiniteSets, TLC

(***************************************************************************)
(* Tokens                                                                  *)
(***************************************************************************)
NL == "\n"
TAB == "\t"
SP == " "
BSN == "\\n"
SENTINEL == "\\N"
EOD == "\\."
QUOTE == "'"
SEMI == ";"
COMMA == ","
DASHES == "--"
WS == {SP, TAB, NL, "  ", "    "}

MARKER_REQ == <<"COPY public.requirements_library">>
MARKER_STD == <<"COPY public.standards_library">>
FROM_STDIN == <<"FROM stdin", SEMI>>
UPDATE_SET == <<"UPDATE requirements_library SET">>
UPDATE_MARK == <<DASHES, SP, "Update">>
WHERE_ID == <<"WHERE id =", SP>>

ISO27001_UUID == "55742f4e-769b-4efe-912c-1371de5e1cd6"
ISO27002_UUID == "8508cfb0-3457-4226-b39a-851be52ef7ea"
CIS_IG1_UUID == "afe9728d-2084-4b6b-8653-b04e1e92cdff"
CIS_IG2_UUID == "05501cbc-c463-4668-ae84-9acb1a4d5332"
CIS_IG3_UUID == "b1d9e82f-b0c3-40e2-89d7-4c51e216214e"

(***************************************************************************)
(* Python string and list primitives, on token sequences                   *)
(***************************************************************************)
SetMin(S) == CHOOSE x \in S : \A y \in S : x <= y
SetMax(S) == CHOOSE x \in S : \A y \in S : y <= x

\* Python's normalisation of a slice or search bound: negative counts from the end.
PyIndex(s, i) ==
    IF i < 0 THEN (IF Len(s) + i < 0 THEN 0 ELSE Len(s) + i)
    ELSE (IF i > Len(s) THEN Len(s) ELSE i)

\* s[a:b]
Slice(s, a, b) == SubSeq(s, PyIndex(s, a) + 1, PyIndex(s, b))

\* s[a:]
SliceFrom(s, a) == SubSeq(s, PyIndex(s, a) + 1, Len(s))

\* pat occurs in s at 0-based offset i
MatchAt(s, pat, i) ==
    /\ i >= 0
    /\ i + Len(pat) <= Len(s)
    /\ \A k \in 1..Len(pat) : s[i + k] = pat[k]

\* s.find(pat, start): lowest offset >= start, or -1
Find(s, pat, start) ==
    LET b == IF start < 0 THEN (IF Len(s) + start < 0 THEN 0 ELSE Len(s) + start) ELSE start
        hits == {i \in b..(Len(s) - Len(pat)) : MatchAt(s, pat, i)}
    IN  IF hits = {} THEN -1 ELSE SetMin(hits)

\* pat in s
Contains(s, pat) == Find(s, pat, 0) # -1

\* s.startswith(pat), s.endswith(pat)
StartsWith(s, pat) == MatchAt(s, pat, 0)
EndsWith(s, pat) == MatchAt(s, pat, Len(s) - Len(pat))

\* s.strip()
Strip(s) ==
    LET keep == {i \in 1..Len(s) : s[i] \notin WS}
    IN  IF keep = {} THEN <<>> ELSE SubSeq(s, SetMin(keep), SetMax(keep))

\* s.rstrip(',')
RStripComma(s) ==
    LET keep == {i \in 1..Len(s) : s[i] # COMMA}
    IN  IF keep = {} THEN <<>> ELSE SubSeq(s, 1, SetMax(keep))

\* s.split(sep) for a one-token separator: always at least one piece
Split(s, sep) ==
    LET P == {i \in 1..Len(s) : s[i] = sep}
        n == Cardinality(P)
        Nth(k) == IF k = 0 THEN 0
                  ELSE IF k = n + 1 THEN Len(s) + 1
                  ELSE CHOOSE i \in P : Cardinality({j \in P : j <= i}) = k
    IN  [k \in 1..(n + 1) |-> SubSeq(s, Nth(k - 1) + 1, Nth(k) - 1)]

RECURSIVE Join(_, _)
\* sep.join(list) (evaluated by halves, which keeps the recursion shallow)
Join(sep, list) ==
    IF list = <<>> THEN <<>>
    ELSE IF Len(list) = 1 THEN list[1]
    ELSE LET h == Len(list) \div 2
         IN  Join(sep, SubSeq(list, 1, h)) \o sep \o Join(sep, SubSeq(list, h + 1, Len(list)))

\* ''.join(list), list1 + list2 + ...: concatenation of a list of sequences
Concat(list) == Join(<<>>, list)

\* s.replace(old, new) for a one-token old
Replace(s, old, new) ==
    Concat([i \in 1..Len(s) |-> IF s[i] = old THEN new ELSE <<s[i]>>])

\* t.lower() of the tokens standard names are made of
LowerTok(t) ==
    CASE t = "ISO" -> "iso"
      [] t = "/IEC" -> "/iec"
      [] t = "NIST" -> "nist"
      [] t = "CSF" -> "csf"
      [] t = "Controls" -> "controls"
      [] t = "CIS" -> "cis"
      [] t = "IG1" -> "ig1"
      [] t = "IG2" -> "ig2"
      [] t = "IG3" -> "ig3"
      [] OTHER -> t

\* s.lower()
Lower(s) == [i \in 1..Len(s) |-> LowerTok(s[i])]

\* s.upper() of the five target short names
Upper(name) ==
    CASE name = "iso27001" -> "ISO27001"
      [] name = "iso27002" -> "ISO27002"
      [] name = "cis_ig1" -> "CIS_IG1"
      [] name = "cis_ig2" -> "CIS_IG2"
      [] name = "cis_ig3" -> "CIS_IG3"

DigitTok(d) == CASE d = 0 -> "0" [] d = 1 -> "1" [] d = 2 -> "2" [] d = 3 -> "3"
                 [] d = 4 -> "4" [] d = 5 -> "5" [] d = 6 -> "6" [] d = 7 -> "7"
                 [] d = 8 -> "8" [] d = 9 -> "9"

RECURSIVE Decimal(_)
\* str(n) for n >= 0
Decimal(n) == IF n < 10 THEN <<DigitTok(n)>> ELSE Decimal(n \div 10) \o <<DigitTok(n % 10)>>

\* f"{n:02d}": zero-padded to at least two digits
Format02d(n) == IF n < 10 THEN <<"0">> \o Decimal(n) ELSE Decimal(n)

(***************************************************************************)
(* Python dicts: insertion-ordered, assignment to a present key overwrites *)
(* the value in place.                                                     *)
(***************************************************************************)
DictHas(d, key) == \E i \in 1..Len(d) : d[i].k = key
DictGet(d, key) == d[CHOOSE i \in 1..Len(d) : d[i].k = key].v
DictSet(d, key, val) ==
    IF DictHas(d, key)
    THEN [i \in 1..Len(d) |-> IF d[i].k = key THEN [k |-> key, v |-> val] ELSE d[i]]
    ELSE Append(d, [k |-> key, v |-> val])

(***************************************************************************)
(* Backup parsing                                                          *)
(***************************************************************************)
\* The text between "<marker> ... FROM stdin;\n" and the next "\.", stripped.
\* No test of the marker's presence: a miss (-1) is used as an offset, which
\* then falls inside the first line of the file, in tokens as in characters.
CopySection(content, marker) ==
    LET start == Find(content, marker, 0)
        data_start == Find(content, FROM_STDIN, start) + Len(FROM_STDIN) + 1
        data_end == Find(content, <<EOD>>, data_start)
    IN  Strip(Slice(content, data_start, data_end))

\* [line for line in section.split('\n') if line.strip()]
DataLines(section) == SelectSeq(Split(section, NL), LAMBDA line : Strip(line) # <<>>)

RECURSIVE ParseRequirements(_, _)
ParseRequirements(lines, requirements) ==
    IF lines = <<>> THEN requirements
    ELSE LET parts == Split(Head(lines), TAB)
         IN  ParseRequirements(Tail(lines),
                 IF Len(parts) >= 5
                 THEN DictSet(requirements, parts[1],
                              [standard_id |-> parts[2], control_id |-> parts[3],
                               title |-> parts[4], description |-> parts[5]])
                 ELSE requirements)

\* execute_restoration.extract_requirements_from_backup: dict req_id -> record
extract_requirements_from_backup(content) ==
    ParseRequirements(DataLines(CopySection(content, MARKER_REQ)), <<>>)

(***************************************************************************)
(* SQL generator, restoration path (UPDATE only)                           *)
(***************************************************************************)
\* execute_restoration.generate_restoration_sql: target_standards, in dict order
target_standards ==
    << [k |-> "iso27001", v |-> ISO27001_UUID],
       [k |-> "iso27002", v |-> ISO27002_UUID],
       [k |-> "cis_ig1", v |-> CIS_IG1_UUID],
       [k |-> "cis_ig2", v |-> CIS_IG2_UUID],
       [k |-> "cis_ig3", v |-> CIS_IG3_UUID] >>

TargetIds == {target_standards[i].v : i \in 1..Len(target_standards)}

\* The same without the replacement: the value as it is.
KeepQuotes(value) == value

\* title.replace("'", "''")
EscapeQuotes(value) == Replace(value, QUOTE, <<QUOTE, QUOTE>>)

\* The seven lines appended for one requirement.
UpdateLines(req_id, req_data) ==
    LET title == EscapeQuotes(req_data.title)
        description == EscapeQuotes(req_data.description)
    IN  << UPDATE_MARK \o <<SP>> \o req_data.control_id \o <<":", SP>>
               \o Slice(title, 0, 60) \o <<"...">>,
           UPDATE_SET,
           <<"  ", "title =", SP, QUOTE>> \o title \o <<QUOTE, COMMA>>,
           <<"  ", "description =", SP, QUOTE>> \o description \o <<QUOTE, COMMA>>,
           <<"  ", "updated_at = NOW()">>,
           WHERE_ID \o <<QUOTE>> \o req_id \o <<QUOTE, SEMI>>,
           <<>> >>

AllUpdateLines(reqs) ==
    Concat([i \in 1..Len(reqs) |-> UpdateLines(reqs[i].k, reqs[i].v)])

\* The header comment and the statements of one target standard.
StandardLines(std_name, std_id, target_requirements) ==
    LET std_requirements ==
            SelectSeq(target_requirements, LAMBDA e : e.v.standard_id = <<std_id>>)
    IN  IF std_requirements = <<>> THEN <<>>
        ELSE << <<DASHES, SP, Upper(std_name), SP, "Requirements (">>
                    \o Decimal(Len(std_requirements)) \o <<SP, "total)">>,
                <<>> >>
             \o AllUpdateLines(std_requirements)

RECURSIVE GroupedLines(_, _)
GroupedLines(targets, target_requirements) ==
    IF targets = <<>> THEN <<>>
    ELSE StandardLines(targets[1].k, targets[1].v, target_requirements)
             \o GroupedLines(Tail(targets), target_requirements)

\* The trailing verification query.
VerificationLines ==
    LET ids == [i \in 1..Len(target_standards) |->
                   <<"  ", QUOTE, target_standards[i].v, QUOTE, COMMA>>]
        last == Len(ids)
    IN  << <<DASHES, SP, "Verification Queries">>,
           <<"SELECT", SP>>,
           <<"  ", "sl.name as standard_name,">>,
           <<"  ", "COUNT(*) as requirement_count">>,
           <<"FROM requirements_library rl">>,
           <<"JOIN standards_library sl ON rl.standard_id = sl.id">>,
           <<"WHERE sl.id IN (">> >>
        \o [i \in 1..last |-> IF i = last THEN RStripComma(ids[i]) ELSE ids[i]]
        \o << <<")">>,
              <<"GROUP BY sl.name, sl.id">>,
              <<"ORDER BY sl.name", SEMI>> >>

\* The requirements whose standard_id is one of the hard-coded target ids.
TargetRequirements(backup_requirements) ==
    SelectSeq(backup_requirements,
              LAMBDA e : \E id \in TargetIds : e.v.standard_id = <<id>>)

\* execute_restoration.generate_restoration_sql: the lines are joined by
\* the two characters backslash and n ('\\n'), not by a line feed.
generate_restoration_sql(content) ==
    LET backup_requirements == extract_requirements_from_backup(content)
        sql_statements ==
            << <<DASHES, SP, "Requirements Restoration SQL">>,
               UPDATE_MARK \o <<"s ONLY titles and descriptions from backup">>,
               <<DASHES, SP, "Preserves all other columns and recent changes">>,
               <<>> >>
            \o GroupedLines(target_standards, TargetRequirements(backup_requirements))
            \o VerificationLines
    IN  Join(<<BSN>>, sql_statements)

(***************************************************************************)
(* Batcher                                                                 *)
(***************************************************************************)
\* End offset (exclusive) of "WHERE id = '[^']+';" matched at offset w, or -1.
WhereMatchEnd(s, w) ==
    IF ~MatchAt(s, WHERE_ID \o <<QUOTE>>, w) THEN -1
    ELSE LET open == w + Len(WHERE_ID) + 1
             close == Find(s, <<QUOTE>>, open)
         IN  IF close > open /\ MatchAt(s, <<SEMI>>, close + 1) THEN close + 2 ELSE -1

\* End offset of the lazy match "-- Update.*?WHERE id = '[^']+';" begun at st, or -1.
UnitEnd(s, st) ==
    LET ws == {w \in (st + Len(UPDATE_MARK))..(Len(s) - 1) : WhereMatchEnd(s, w) # -1}
    IN  IF ws = {} THEN -1 ELSE WhereMatchEnd(s, SetMin(ws))

RECURSIVE FindAllUpdates(_, _)
\* re.findall(r"-- Update.*?WHERE id = '[^']+';", s, re.DOTALL), scanning from pos
FindAllUpdates(s, pos) ==
    LET st == Find(s, UPDATE_MARK, pos)
        en == IF st = -1 THEN -1 ELSE UnitEnd(s, st)
    IN  IF en = -1 THEN <<>>
        ELSE <<Slice(s, st, en)>> \o FindAllUpdates(s, en)

RECURSIVE ChunksFrom(_, _, _)
ChunksFrom(updates, i, chunk_size) ==
    IF i >= Len(updates) THEN <<>>
    ELSE <<Join(<<NL, NL>>, Slice(updates, i, i + chunk_size))>>
             \o ChunksFrom(updates, i + chunk_size, chunk_size)

\* execute_sql_chunks.split_sql_into_chunks
split_sql_into_chunks(sql_content, chunk_size) ==
    ChunksFrom(FindAllUpdates(sql_content, 0), 0, chunk_size)

\* f'sql_chunk_{i+1:02d}.sql'
ChunkFileName(n) == <<"sql_chunk_">> \o Format02d(n) \o <<".sql">>


(***************************************************************************)
(* Aggregator                                                              *)
(***************************************************************************)
RESTORATION_FILE == <<"requirements_restoration.sql">>
COMPLETE_FILE == <<"complete_restoration.sql">>

\* Character order of the tokens file names and control ids are made of
\* ('.' < '0' < ... < '9'); ".sql" sorts by its first character.
NameRank(t) ==
    CASE t = ".sql" -> 0
      [] t = "." -> 0
      [] t = "0" -> 1 [] t = "1" -> 2 [] t = "2" -> 3 [] t = "3" -> 4 [] t = "4" -> 5
      [] t = "5" -> 6 [] t = "6" -> 7 [] t = "7" -> 8 [] t = "8" -> 9 [] t = "9" -> 10
      [] OTHER -> 11

\* a < b in Python's string order
NameLess(a, b) ==
    \E i \in 1..Len(b) :
        /\ \A j \in 1..(i - 1) : j <= Len(a) /\ a[j] = b[j]
        /\ (i > Len(a) \/ NameRank(a[i]) < NameRank(b[i]))

RECURSIVE Sorted(_)
\* sorted(names)
Sorted(names) ==
    IF names = {} THEN <<>>
    ELSE LET first == CHOOSE n \in names : \A m \in names \ {n} : NameLess(n, m)
         IN  <<first>> \o Sorted(names \ {first})

\* glob.glob("sql_chunk_*.sql")
GlobChunks(files) ==
    {n \in DOMAIN files : Len(n) >= 2 /\ n[1] = "sql_chunk_" /\ n[Len(n)] = ".sql"}

RECURSIVE ScanLines(_, _, _, _)
\* The per-line loop over one chunk file; returns all_sql.
ScanLines(lines, in_update, current_update, all_sql) ==
    IF lines = <<>> THEN all_sql
    ELSE LET line == Head(lines)
         IN  IF StartsWith(Strip(line), UPDATE_SET)
             THEN ScanLines(Tail(lines), TRUE, <<line>>, all_sql)
             ELSE IF in_update
             THEN IF EndsWith(Strip(line), <<SEMI>>)
                  THEN ScanLines(Tail(lines), FALSE, <<>>,
                                 all_sql \o Append(current_update, line) \o << <<>> >>)
                  ELSE ScanLines(Tail(lines), TRUE, Append(current_update, line), all_sql)
             ELSE ScanLines(Tail(lines), in_update, current_update, all_sql)

RECURSIVE ScanFiles(_, _, _)
ScanFiles(files, chunk_files, all_sql) ==
    IF chunk_files = <<>> THEN all_sql
    ELSE ScanFiles(files, Tail(chunk_files),
                   ScanLines(Split(files[Head(chunk_files)], NL), FALSE, <<>>, all_sql))

\* bulk_restore_all.create_complete_sql
create_complete_sql(files) ==
    LET header == << <<DASHES, SP, "COMPLETE REQUIREMENTS RESTORATION">>,
                     <<DASHES, SP, "Restoring ALL requirements from July 19th backup">>,
                     <<>> >>
    IN  Join(<<NL>>, ScanFiles(files, Sorted(GlobChunks(files)), header))

(***************************************************************************)
(* Analysis: restore_requirements                                          *)
(***************************************************************************)
RECURSIVE ParseStandards(_, _)
\* standard_map[std_id] = f"{std_name} {std_version}".strip()
ParseStandards(lines, standard_map) ==
    IF lines = <<>> THEN standard_map
    ELSE LET parts == Split(Head(lines), TAB)
         IN  ParseStandards(Tail(lines),
                 IF Strip(Head(lines)) # <<>> /\ Len(parts) >= 3
                 THEN DictSet(standard_map, parts[1], Strip(parts[2] \o <<SP>> \o parts[3]))
                 ELSE standard_map)

RECURSIVE GroupRequirements(_, _)
\* requirements_by_standard[standard_id].append({...})
GroupRequirements(lines, by_standard) ==
    IF lines = <<>> THEN by_standard
    ELSE LET line == Head(lines)
             parts == Split(line, TAB)
             req == [id |-> parts[1], control_id |-> parts[3], title |-> parts[4],
                     description |-> parts[5], full_line |-> line]
             old == IF DictHas(by_standard, parts[2]) THEN DictGet(by_standard, parts[2])
                    ELSE <<>>
         IN  GroupRequirements(Tail(lines),
                 IF Len(parts) >= 5 THEN DictSet(by_standard, parts[2], Append(old, req))
                 ELSE by_standard)

\* "return None, None"
NoData == [found |-> FALSE, standard_map |-> <<>>, requirements_by_standard |-> <<>>]

\* restore_requirements.extract_backup_data
extract_backup_data(content) ==
    IF Find(content, MARKER_STD, 0) = -1 THEN NoData
    ELSE IF Find(content, MARKER_REQ, 0) = -1 THEN NoData
    ELSE [found |-> TRUE,
          standard_map |->
              ParseStandards(Split(CopySection(content, MARKER_STD), NL), <<>>),
          requirements_by_standard |->
              GroupRequirements(DataLines(CopySection(content, MARKER_REQ)), <<>>)]

\* None is the empty option <<>>, an identifier id is <<id>>.
NoTargets ==
    [iso27001_id |-> <<>>, iso27002_id |-> <<>>,
     cis_ig1_id |-> <<>>, cis_ig2_id |-> <<>>, cis_ig3_id |-> <<>>]

\* The same chain keeping an identifier once it is set.
MatchStandardOnce(found, std_id, name) ==
    LET name_lower == Lower(name)
        has(tok) == Contains(name_lower, <<tok>>)
        keep(old) == IF old = <<>> THEN <<std_id>> ELSE old
    IN  IF has("iso") /\ has("27001") THEN [found EXCEPT !.iso27001_id = keep(@)]
        ELSE IF has("iso") /\ has("27002") THEN [found EXCEPT !.iso27002_id = keep(@)]
        ELSE IF has("cis") /\ has("ig1") THEN [found EXCEPT !.cis_ig1_id = keep(@)]
        ELSE IF has("cis") /\ has("ig2") THEN [found EXCEPT !.cis_ig2_id = keep(@)]
        ELSE IF has("cis") /\ has("ig3") THEN [found EXCEPT !.cis_ig3_id = keep(@)]
        ELSE found

\* One pass of the if/elif chain: every match assigns, overwriting an earlier one.
MatchStandard(found, std_id, name) ==
    LET name_lower == Lower(name)
        has(tok) == Contains(name_lower, <<tok>>)
    IN  IF has("iso") /\ has("27001") THEN [found EXCEPT !.iso27001_id = <<std_id>>]
        ELSE IF has("iso") /\ has("27002") THEN [found EXCEPT !.iso27002_id = <<std_id>>]
        ELSE IF has("cis") /\ has("ig1") THEN [found EXCEPT !.cis_ig1_id = <<std_id>>]
        ELSE IF has("cis") /\ has("ig2") THEN [found EXCEPT !.cis_ig2_id = <<std_id>>]
        ELSE IF has("cis") /\ has("ig3") THEN [found EXCEPT !.cis_ig3_id = <<std_id>>]
        ELSE found

RECURSIVE ScanStandards(_, _)
ScanStandards(items, found) ==
    IF items = <<>> THEN found
    ELSE ScanStandards(Tail(items), MatchStandard(found, items[1].k, items[1].v))

\* restore_requirements.find_target_standards (the second argument is only printed)
find_target_standards(standard_map) == ScanStandards(standard_map, NoTargets)

(***************************************************************************)
(* SQL generator, full-row INSERT path                                     *)
(***************************************************************************)
\* x if x != '\\N' else 'NULL'
NullIfSentinel(value) == IF value # <<SENTINEL>> THEN value ELSE <<"NULL">>

\* if x != 'NULL': x = f"'{x}'"
QuoteUnlessNull(value) == IF value # <<"NULL">> THEN <<QUOTE>> \o value \o <<QUOTE>> ELSE value

\* '{x}'
Quoted(value) == <<QUOTE>> \o value \o <<QUOTE>>

\* audit_ready_guidance: escaped, then quoted, unless NULL
EscapeAndQuoteUnlessNull(value) ==
    IF value # <<"NULL">> THEN <<QUOTE>> \o EscapeQuotes(value) \o <<QUOTE>> ELSE value

\* The 17 expressions interpolated into VALUES (...), in order.
InsertValues(parts) ==
    << Quoted(parts[1]),                                       \* req_id
       Quoted(parts[2]),                                       \* standard_id
       Quoted(parts[3]),                                       \* control_id
       Quoted(EscapeQuotes(parts[4])),                         \* title
       Quoted(EscapeQuotes(parts[5])),                         \* description
       Quoted(EscapeQuotes(parts[6])),                         \* category
       Quoted(parts[7]),                                       \* priority
       QuoteUnlessNull(NullIfSentinel(parts[8])),              \* parent_requirement_id
       parts[9],                                               \* order_index
       Quoted(parts[10]),                                      \* created_at
       Quoted(parts[11]),                                      \* updated_at
       parts[12],                                              \* is_active
       QuoteUnlessNull(NullIfSentinel(parts[13])),             \* tags
       NullIfSentinel(parts[14]),                              \* official_description
       NullIfSentinel(parts[15]),                              \* implementation_guidance
       EscapeAndQuoteUnlessNull(NullIfSentinel(parts[16])),    \* audit_ready_guidance
       QuoteUnlessNull(NullIfSentinel(parts[17])) >>           \* section

\* The f-string of insert_sql around the 17 values.
InsertSql(v) ==
    LET sep == <<COMMA, SP>>
        brk == <<COMMA, SP, NL, "    ">>
    IN  <<"INSERT INTO requirements_library (", NL, "    ",
          "id, standard_id, control_id, title, description, category, priority,", SP, NL,
          "    ",
          "parent_requirement_id, order_index, created_at, updated_at, is_active,", SP, NL,
          "    ",
          "tags, official_description, implementation_guidance, audit_ready_guidance, section",
          NL, ") VALUES (", NL, "    ">>
        \o v[1] \o sep \o v[2] \o sep \o v[3] \o sep \o v[4] \o sep \o v[5] \o brk
        \o v[6] \o sep \o v[7] \o sep \o v[8] \o sep \o v[9] \o brk
        \o v[10] \o sep \o v[11] \o sep \o v[12] \o sep \o v[13] \o sep \o v[14] \o brk
        \o v[15] \o sep \o v[16] \o sep \o v[17]
        \o <<NL, ")", SEMI>>

RECURSIVE CollectInserts(_, _)
\* The loop over lines; acc = [iso27001_inserts, iso27002_inserts], lists of
\* (control_id, insert_sql).
CollectInserts(lines, acc) ==
    IF lines = <<>> THEN acc
    ELSE LET parts == Split(Head(lines), TAB)
             entry == [control_id |-> parts[3], insert_sql |-> InsertSql(InsertValues(parts))]
         IN  CollectInserts(Tail(lines),
                 IF Len(parts) >= 18
                 THEN IF parts[2] = <<ISO27001_UUID>>
                      THEN [acc EXCEPT !.iso27001_inserts = Append(@, entry)]
                      ELSE IF parts[2] = <<ISO27002_UUID>>
                      THEN [acc EXCEPT !.iso27002_inserts = Append(@, entry)]
                      ELSE acc
                 ELSE acc)

\* create_insert_statements.extract_requirements_for_insert
extract_requirements_for_insert(content) ==
    CollectInserts(DataLines(CopySection(content, MARKER_REQ)),
                   [iso27001_inserts |-> <<>>, iso27002_inserts |-> <<>>])

RECURSIVE SortedByControlId(_)
\* sorted(inserts, key=lambda x: x[0]): stable, by string order of control_id
SortedByControlId(inserts) ==
    IF inserts = <<>> THEN <<>>
    ELSE LET i == SetMin({j \in 1..Len(inserts) :
                             \A m \in 1..Len(inserts) :
                                 ~NameLess(inserts[m].control_id, inserts[j].control_id)})
         IN  <<inserts[i]>>
                 \o SortedByControlId(SubSeq(inserts, 1, i - 1)
                                          \o SubSeq(inserts, i + 1, Len(inserts)))

\* f.write(f"-- Insert {control_id}\\n"); f.write(insert_sql); f.write("\\n\\n")
InsertWrites(inserts) ==
    Concat([i \in 1..Len(inserts) |->
               <<DASHES, SP, "Insert", SP>> \o inserts[i].control_id \o <<BSN>>
                   \o inserts[i].insert_sql \o <<BSN, BSN>>])

ISO27001_FILE == <<"iso27001_inserts.sql">>
ISO27002_FILE == <<"iso27002_inserts_sample.sql">>

\* The text written to iso27001_inserts.sql
Iso27001FileText(inserts) ==
    <<DASHES, SP, "ISO 27001 Requirements INSERT Statements", BSN,
      DASHES, SP, "Generated from July 19th backup", BSN, BSN>>
        \o InsertWrites(SortedByControlId(inserts))

\* The text written to iso27002_inserts_sample.sql: the first 20 in sorted order
Iso27002FileText(inserts) ==
    <<DASHES, SP, "ISO 27002 Requirements INSERT Statements (Sample)", BSN,
      DASHES, SP, "Generated from July 19th backup", BSN, BSN>>
        \o InsertWrites(Slice(SortedByControlId(inserts), 0, 20))

(***************************************************************************)
(* Chunk runner: complete_restoration                                      *)
(***************************************************************************)
\* complete_restoration.run_sql_chunk: whether the chunk file exists and holds
\* a line that is neither blank nor a comment.
run_sql_chunk(files, chunk_num) ==
    IF ChunkFileName(chunk_num) \notin DOMAIN files THEN FALSE
    ELSE LET sql_lines ==
                 SelectSeq(Split(files[ChunkFileName(chunk_num)], NL),
                           LAMBDA line : /\ Strip(line) # <<>>
                                         /\ ~StartsWith(Strip(line), <<DASHES>>))
         IN  Strip(Join(<<NL>>, sql_lines)) # <<>>

\* The counting loop of complete_restoration.main: the last index of the
\* unbroken run sql_chunk_01.sql, sql_chunk_02.sql, ... that exists, below 100.
CountChunks(files) ==
    SetMax({k \in 0..99 : \A i \in 1..k : ChunkFileName(i) \in DOMAIN files})

\* The executing loop of complete_restoration.main: the chunks run_sql_chunk accepts.
ExecutedChunks(files) ==
    Cardinality({i \in 1..CountChunks(files) : run_sql_chunk(files, i)})

(***************************************************************************)
(* State                                                                   *)
(***************************************************************************)
VARIABLES
    fixture,      \* the tables the backup file was dumped from
    backup,       \* text of Standards/db_cluster-19-07-2025@22-37-30.backup
    disk,         \* the .sql files of the working directory: name -> text
    restoration,  \* execute_restoration: backup_requirements of its last run
    analysis,     \* restore_requirements: outcome and results of its last run
    inserts,      \* create_insert_statements: the two lists of its last run
    split,        \* last result of split_sql_into_chunks called on its own
    batch,        \* execute_sql_chunks: the chunks of its last run
    completion    \* complete_restoration: the counts of its last run

vars == <<fixture, backup, disk, restoration, analysis, inserts, split, batch, completion>>

(***************************************************************************)
(* The backup file: pg_dump plain text, one COPY block per table           *)
(***************************************************************************)
\* One data line: the fields joined by tabs.
RowLine(row) == Join(<<TAB>>, row)

RowLines(rows) == Concat([i \in 1..Len(rows) |-> RowLine(rows[i]) \o <<NL>>])

CopyBlock(marker, rows) ==
    marker \o <<SP, "(...)", SP>> \o FROM_STDIN \o <<NL>> \o RowLines(rows) \o <<EOD, NL, NL>>

BackupText(f) ==
    <<DASHES, SP, "PostgreSQL database dump", NL, NL>>
        \o (IF f.has_std THEN CopyBlock(MARKER_STD, f.stds) ELSE <<>>)
        \o (IF f.has_req THEN CopyBlock(MARKER_REQ, f.reqs) ELSE <<>>)

(***************************************************************************)
(* Entry points                                                            *)
(***************************************************************************)
\* open(name, 'w').write(text)
WriteFile(files, name, text) ==
    [n \in DOMAIN files \cup {name} |-> IF n = name THEN text ELSE files[n]]

RECURSIVE WriteChunks(_, _, _)
\* for i, chunk in enumerate(chunks): write f'sql_chunk_{i+1:02d}.sql'
WriteChunks(files, chunks, i) ==
    IF i >= Len(chunks) THEN files
    ELSE WriteChunks(WriteFile(files, ChunkFileName(i + 1), chunks[i + 1]), chunks, i + 1)

\* execute_restoration.main
RunExecuteRestoration ==
    /\ restoration' = [ran |-> TRUE,
                       backup_requirements |-> extract_requirements_from_backup(backup)]
    /\ disk' = WriteFile(disk, RESTORATION_FILE, generate_restoration_sql(backup))
    /\ UNCHANGED <<fixture, backup, analysis, inserts, split, batch, completion>>

\* execute_sql_chunks.main: 8 updates per chunk; open() raises when the script is absent
RunExecuteSqlChunks ==
    /\ RESTORATION_FILE \in DOMAIN disk
    /\ disk' = WriteChunks(disk, split_sql_into_chunks(disk[RESTORATION_FILE], 8), 0)
    /\ batch' = [ran |-> TRUE,
                 chunks |-> split_sql_into_chunks(disk[RESTORATION_FILE], 8)]
    /\ UNCHANGED <<fixture, backup, restoration, analysis, inserts, split, completion>>

\* bulk_restore_all.main
RunBulkRestoreAll ==
    /\ disk' = WriteFile(disk, COMPLETE_FILE, create_complete_sql(disk))
    /\ UNCHANGED <<fixture, backup, restoration, analysis, inserts, split, batch, completion>>

\* restore_requirements.main: sys.exit(1) when either result is None or empty
RunRestoreRequirements ==
    /\ LET data == extract_backup_data(backup)
       IN  analysis' =
               IF data.standard_map = <<>> \/ data.requirements_by_standard = <<>>
               THEN [status |-> "exit 1", data |-> data, target_standards |-> NoTargets]
               ELSE [status |-> "complete", data |-> data,
                     target_standards |-> find_target_standards(data.standard_map)]
    /\ UNCHANGED <<fixture, backup, disk, restoration, inserts, split, batch, completion>>

\* create_insert_statements.main
RunCreateInsertStatements ==
    /\ LET lists == extract_requirements_for_insert(backup)
       IN  /\ inserts' = [ran |-> TRUE,
                          iso27001_inserts |-> lists.iso27001_inserts,
                          iso27002_inserts |-> lists.iso27002_inserts]
           /\ disk' = WriteFile(
                          WriteFile(disk, ISO27001_FILE,
                                    Iso27001FileText(lists.iso27001_inserts)),
                          ISO27002_FILE, Iso27002FileText(lists.iso27002_inserts))
    /\ UNCHANGED <<fixture, backup, restoration, analysis, split, batch, completion>>

\* complete_restoration.main
RunCompleteRestoration ==
    /\ completion' = [ran |-> TRUE, chunk_count |-> CountChunks(disk),
                      executed |-> ExecutedChunks(disk)]
    /\ UNCHANGED <<fixture, backup, disk, restoration, analysis, inserts, split, batch>>

\* The operator puts another backup file in the place the scripts read.
ReplaceBackup(f) ==
    /\ fixture' = f
    /\ backup' = BackupText(f)
    /\ UNCHANGED <<disk, restoration, analysis, inserts, split, batch, completion>>

\* split_sql_into_chunks(sql_content, chunk_size) applied to the restoration script
ApplySplit(chunk_size) ==
    /\ RESTORATION_FILE \in DOMAIN disk
    /\ split' = [ran |-> TRUE, chunk_size |-> chunk_size,
                 chunks |-> split_sql_into_chunks(disk[RESTORATION_FILE], chunk_size)]
    /\ UNCHANGED <<fixture, backup, disk, restoration, analysis, inserts, batch, completion>>

\* The state before any script has run: no output file, no result.
Fresh ==
    /\ disk = <<>>
    /\ restoration = [ran |-> FALSE, backup_requirements |-> <<>>]
    /\ analysis = [status |-> "not run", data |-> NoData, target_standards |-> NoTargets]
    /\ inserts = [ran |-> FALSE, iso27001_inserts |-> <<>>, iso27002_inserts |-> <<>>]
    /\ split = [ran |-> FALSE, chunk_size |-> 0, chunks |-> <<>>]
    /\ batch = [ran |-> FALSE, chunks |-> <<>>]
    /\ completion = [ran |-> FALSE, chunk_count |-> 0, executed |-> 0]

(***************************************************************************)
(* Backups the scripts are run on                                          *)
(***************************************************************************)
MaxPipeRows == 3
MaxChunkSize == 3
MaxReqRows == 2
MaxStdRows == 2
BulkRows == 9

\* All sequences over S of length lo..hi.
SeqsOf(S, lo, hi) == UNION {[1..n -> S] : n \in lo..hi}

Fixture(has_std, stds, has_req, reqs) ==
    [has_std |-> has_std, stds |-> stds, has_req |-> has_req, reqs |-> reqs]

StdRow(id, name) == << <<id>>, name, <<"2022">> >>
Iso27001Name == <<"ISO", "/IEC", SP, "27001">>
Iso27002Name == <<"ISO", "/IEC", SP, "27002">>

\* A five-column requirement line.
LightRow(id, std, control, title, description) ==
    << <<id>>, <<std>>, control, title, description >>

\* An 18-column requirement line; n maps a column of the six nullable ones to its value.
FullRow(id, std, control, title, description, n) ==
    << <<id>>, <<std>>, control, title, description,
       <<"Organizational">>, <<"high">>, n[8], <<"3">>,
       <<"2025-07-01">>, <<"2025-07-02">>, <<"t">>,
       n[13], n[14], n[15], n[16], n[17], <<"2022">> >>

NullableColumns == {8, 13, 14, 15, 16, 17}
AllNull == [c \in NullableColumns |-> <<SENTINEL>>]

\* --- the batching pipeline: up to MaxPipeRows requirements, ids by position
PipeKinds ==
    { <<ISO27001_UUID, <<<<"a">>, <<"b">>>>>>,
      <<ISO27002_UUID, <<<<"a", QUOTE, "b">>, <<"c">>>>>>,
      <<ISO27001_UUID, <<WHERE_ID, <<SEMI, "x">>>>>>,
      <<"A", <<<<"a">>, <<"b">>>>>> }
PipeIds == <<"r1", "r2", "r3", "r4", "r5", "r6", "r7", "r8", "r9", "r10", "r11", "r12">>
PipeFixtures ==
    { Fixture(TRUE, <<StdRow(ISO27001_UUID, Iso27001Name)>>, TRUE,
              [i \in 1..Len(ks) |->
                  LightRow(PipeIds[i], ks[i][1], <<"4", ".">> \o Decimal(i),
                           ks[i][2][1], ks[i][2][2])])
      : ks \in SeqsOf(PipeKinds, 0, MaxPipeRows)
                 \cup {[i \in 1..BulkRows |->
                           <<(IF i % 2 = 1 THEN ISO27001_UUID ELSE ISO27002_UUID),
                             <<<<"a">>, <<"b">>>>>>]} }

\* --- generation: the scenario of two standards and three requirements, and
\* --- single rows over a range of field values
FieldValues ==
    { <<"a">>, <<"a", QUOTE, "b">>, <<QUOTE>>, <<QUOTE, QUOTE, "a">>, <<SENTINEL>>, <<>> }
NullableValues == { <<SENTINEL>>, <<"x", QUOTE, "y">> }

ScenarioFixtures ==
    { Fixture(TRUE, <<StdRow(p[1], Iso27001Name), StdRow(p[2], Iso27002Name)>>, TRUE,
              << LightRow("r1", p[1], <<"4", ".", "1">>, <<"a">>, <<"b">>),
                 LightRow("r2", p[2], <<"5", ".", "1">>, <<"a", QUOTE, "b">>, <<"c">>),
                 LightRow("r3", p[1], <<"4", ".", "2">>, <<"d">>, <<"e">>) >>)
      : p \in {<<"A", "B">>, <<ISO27001_UUID, ISO27002_UUID>>} }

OneRow(row) == Fixture(TRUE, <<StdRow(ISO27001_UUID, Iso27001Name)>>, TRUE, <<row>>)

GenFixtures ==
    ScenarioFixtures
    \cup { OneRow(LightRow("r1", ISO27001_UUID, <<"4", ".", "1">>, t, d))
           : t \in FieldValues, d \in FieldValues }
    \cup { OneRow(FullRow("r1", std, <<"4", ".", "1">>, t, d, AllNull))
           : std \in {ISO27001_UUID, ISO27002_UUID}, t \in FieldValues, d \in FieldValues }
    \cup { OneRow(FullRow("r1", ISO27001_UUID, <<"4", ".", "1">>, <<"a">>, <<"b">>, n))
           : n \in [NullableColumns -> NullableValues] }
    \cup { OneRow(FullRow("r1", ISO27001_UUID, <<"4", ".", "1">>, <<"a">>, <<"b">>,
                          [c \in NullableColumns |-> <<"NULL">>])) }

\* --- parsing: blocks present or absent, ragged, blank and duplicate lines
ParseRows ==
    { LightRow("r1", ISO27001_UUID, <<"4", ".", "1">>, <<"a">>, <<"b">>),
      LightRow("r2", ISO27002_UUID, <<"5", ".", "1">>, <<"a">>, <<"b">>),
      << <<"r3">>, <<ISO27001_UUID>>, <<"4", ".", "3">>, <<"a">> >>,
      << <<>> >>,
      FullRow("r5", ISO27001_UUID, <<"4", ".", "5">>, <<"a">>, <<"b">>, AllNull),
      LightRow("r6", ISO27001_UUID, <<"4", ".", "6">>, <<"a">>, <<>>),
      LightRow("r7", ISO27001_UUID, <<"4", ".", "7">>, <<"a">>, <<"x", "\\", EOD>>) }

WideStdRow == StdRow(ISO27001_UUID, Iso27001Name) \o << <<"standard">>, <<"d">> >>

ParseFixtures ==
    { Fixture(has_std, IF has_std THEN <<WideStdRow>> ELSE <<>>, TRUE, reqs)
      : has_std \in BOOLEAN, reqs \in SeqsOf(ParseRows, 0, MaxReqRows) }
    \cup { Fixture(has_std, IF has_std THEN <<WideStdRow>> ELSE <<>>, FALSE, <<>>)
           : has_std \in BOOLEAN }

\* --- resolving: up to MaxStdRows standards, ids and names repeated or not
StdNames ==
    { Iso27001Name, Iso27002Name,
      <<"iso", SP, "27001">>,
      <<"ISO", SP, "27001", SP, "27002">>,
      <<"CIS", SP, "Controls", SP, "IG1">>,
      <<"27001">>,
      <<"NIST", SP, "CSF">> }
ResolveFixtures ==
    { Fixture(TRUE, stds, TRUE,
              <<LightRow("r1", "A", <<"4", ".", "1">>, <<"a">>, <<"b">>)>>)
      : stds \in SeqsOf({StdRow(id, name) : id \in {"A", "B"}, name \in StdNames},
                        1, MaxStdRows) }

(***************************************************************************)
(* Specifications                                                          *)
(***************************************************************************)
\* The batching pipeline: generate the script, split it, recombine it.
Init ==
    /\ fixture \in PipeFixtures
    /\ backup = BackupText(fixture)
    /\ Fresh

Next ==
    \/ RunExecuteRestoration
    \/ RunExecuteSqlChunks
    \/ RunBulkRestoreAll
    \/ \E chunk_size \in 1..MaxChunkSize : ApplySplit(chunk_size)

Spec == Init /\ [][Next]_vars

\* The three scripts that read the backup.
InitExtract ==
    /\ fixture \in GenFixtures \cup ParseFixtures
    /\ backup = BackupText(fixture)
    /\ Fresh

NextExtract ==
    \/ RunExecuteRestoration
    \/ RunRestoreRequirements
    \/ RunCreateInsertStatements

SpecExtract == InitExtract /\ [][NextExtract]_vars

\* The analysis script on its own, over the standards it may meet.
InitResolve ==
    /\ fixture \in ResolveFixtures
    /\ backup = BackupText(fixture)
    /\ Fresh

NextResolve == RunRestoreRequirements

SpecResolve == InitResolve /\ [][NextResolve]_vars


(***************************************************************************)
(* Reading SQL text back: the UPDATE statements a text holds                *)
(***************************************************************************)
\* A statement runs from its UPDATE keyword to the first semicolon outside a
\* quoted literal; a doubled quote inside a literal keeps the count even.
StatementEnd(s, i) ==
    LET ends == {j \in i..Len(s) :
                    /\ s[j] = SEMI
                    /\ Cardinality({q \in i..j : s[q] = QUOTE}) % 2 = 0}
    IN  IF ends = {} THEN 0 ELSE SetMin(ends)

RECURSIVE SqlStatements(_, _)
\* The whole UPDATE statements of s from position from on, in order.
SqlStatements(s, from) ==
    LET starts == {i \in from..Len(s) : s[i] = UPDATE_SET[1]}
        i == SetMin(starts)
        e == StatementEnd(s, i)
    IN  IF starts = {} \/ e = 0 THEN <<>>
        ELSE <<SubSeq(s, i, e)>> \o SqlStatements(s, e + 1)

\* Statements compared up to white space and line breaks.
Bare(statements) ==
    [k \in 1..Len(statements) |->
        SelectSeq(statements[k], LAMBDA t : t \notin WS \cup {BSN})]

StatementsOfAll(texts) == Concat([k \in 1..Len(texts) |-> SqlStatements(texts[k], 1)])

DigitValue(t) == CHOOSE d \in 0..9 : DigitTok(d) = t

RECURSIVE NumberOf(_)
NumberOf(digits) ==
    IF digits = <<>> THEN 0
    ELSE 10 * NumberOf(SubSeq(digits, 1, Len(digits) - 1)) + DigitValue(digits[Len(digits)])

ChunkNumber(name) == NumberOf(SubSeq(name, 2, Len(name) - 1))

RECURSIVE ByNumber(_)
\* The chunk file names in ascending numeric order of index.
ByNumber(names) ==
    IF names = {} THEN <<>>
    ELSE LET first == CHOOSE n \in names :
                          \A m \in names : ChunkNumber(n) <= ChunkNumber(m)
         IN  <<first>> \o ByNumber(names \ {first})

\* The texts of the chunk files on disk, in ascending numeric order.
ChunkTexts == LET names == ByNumber(GlobChunks(disk))
              IN  [k \in 1..Len(names) |-> disk[names[k]]]

\* complete_restoration.sql is the Aggregator's output over the chunk files on disk.
Aggregated ==
    /\ COMPLETE_FILE \in DOMAIN disk
    /\ GlobChunks(disk) # {}
    /\ disk[COMPLETE_FILE] = create_complete_sql(disk)

(***************************************************************************)
(* Claims on the batching pipeline                                         *)
(***************************************************************************)
\* C1: batching the Aggregator's combined output again and flattening the
\* result gives, in the same order, the UPDATE statements the chunk files held.
C1_RoundTrip ==
    Aggregated =>
        Bare(StatementsOfAll(split_sql_into_chunks(disk[COMPLETE_FILE], 8)))
            = Bare(StatementsOfAll(ChunkTexts))

\* C2: the Aggregator's output holds the UPDATE statements of all chunk files,
\* concatenated in ascending numeric order of chunk index, and no others.
C2_OutputIsConcatenation ==
    Aggregated =>
        Bare(SqlStatements(disk[COMPLETE_FILE], 1)) = Bare(StatementsOfAll(ChunkTexts))

\* C3: split_sql_into_chunks on a script of n UPDATE statements with chunk size
\* c returns ceil(n/c) chunks; chunk k holds, whole and in the original order,
\* statements (k-1)c+1 .. min(kc, n): c in each chunk but the last, the rest there.
C3_ChunksPartitionStatements ==
    split.ran =>
        LET statements == SqlStatements(disk[RESTORATION_FILE], 1)
            n == Len(statements)
            c == split.chunk_size
        IN  /\ Len(split.chunks) = (n + c - 1) \div c
            /\ \A k \in 1..Len(split.chunks) :
                   SqlStatements(split.chunks[k], 1)
                       = SubSeq(statements, (k - 1) * c + 1,
                                IF k * c < n THEN k * c ELSE n)

(***************************************************************************)
(* Reading SQL text back: quoted literals and VALUES lists                  *)
(***************************************************************************)
RECURSIVE LiteralEnd(_, _)
\* Index of the quote closing the literal whose content starts at index j, or
\* 0: inside a literal a doubled quote is content, a lone quote ends it.
LiteralEnd(s, j) ==
    IF j > Len(s) THEN 0
    ELSE IF s[j] # QUOTE THEN LiteralEnd(s, j + 1)
    ELSE IF j < Len(s) /\ s[j + 1] = QUOTE THEN LiteralEnd(s, j + 2)
    ELSE j

RECURSIVE Undouble(_)
\* The value a literal's content stands for: each '' read as one '.
Undouble(content) ==
    IF content = <<>> THEN <<>>
    ELSE IF Len(content) >= 2 /\ content[1] = QUOTE /\ content[2] = QUOTE
    THEN <<QUOTE>> \o Undouble(SubSeq(content, 3, Len(content)))
    ELSE <<content[1]>> \o Undouble(Tail(content))

\* The literal that opens at index i of s: the value read, and the index after it.
ReadLiteral(s, i) ==
    LET e == IF i >= 1 /\ i <= Len(s) /\ s[i] = QUOTE THEN LiteralEnd(s, i + 1) ELSE 0
    IN  IF e = 0 THEN [ok |-> FALSE, value |-> <<>>, next |-> i]
        ELSE [ok |-> TRUE, value |-> Undouble(SubSeq(s, i + 1, e - 1)), next |-> e + 1]

\* s is, as a whole, one quoted literal standing for value.
IsLiteralOf(s, value) ==
    LET lit == ReadLiteral(s, 1)
    IN  lit.ok /\ lit.next = Len(s) + 1 /\ lit.value = value

\* Last index of the value of a VALUES list that starts at index pos, or 0:
\* a literal runs to its closing quote, a bare value to the next comma or line end.
ValueEnd(s, pos) ==
    IF pos < 1 \/ pos > Len(s) THEN 0
    ELSE IF s[pos] = QUOTE THEN LiteralEnd(s, pos + 1)
    ELSE LET stops == {j \in pos..Len(s) : s[j] \in {COMMA, NL}}
         IN  IF stops = {} \/ SetMin(stops) = pos THEN 0 ELSE SetMin(stops) - 1

\* What follows value c of the 17 in the statement text.
AfterValue(c) ==
    IF c = 17 THEN <<NL, ")", SEMI>>
    ELSE IF c \in {5, 9, 14} THEN <<COMMA, SP, NL, "    ">>
    ELSE <<COMMA, SP>>

RECURSIVE LexValues(_, _, _, _)
\* The renderings of values c..last read from index pos on; <<>> when the
\* text does not read as such a list.
LexValues(s, pos, c, last) ==
    LET e == ValueEnd(s, pos)
        rest == LexValues(s, e + Len(AfterValue(c)) + 1, c + 1, last)
    IN  IF e = 0 \/ ~MatchAt(s, AfterValue(c), e) THEN <<>>
        ELSE IF c = last THEN <<SubSeq(s, pos, e)>>
        ELSE IF rest = <<>> THEN <<>>
        ELSE <<SubSeq(s, pos, e)>> \o rest

\* The first n renderings of an INSERT statement's VALUES list.
LeadingValues(insert_sql, n) ==
    LET open == <<") VALUES (", NL, "    ">>
        v == Find(insert_sql, open, 0)
    IN  IF v = -1 THEN <<>> ELSE LexValues(insert_sql, v + Len(open) + 1, 1, n)

\* The 17 renderings of an INSERT statement's VALUES list.
RenderedValues(insert_sql) == LeadingValues(insert_sql, 17)

\* The text between the first before and the next after in s.
Between(s, before, after) ==
    LET a == Find(s, before, 0) + Len(before)
        b == Find(s, after, a)
    IN  IF Find(s, before, 0) = -1 \/ b = -1 THEN <<"?">> ELSE Slice(s, a, b)

TitleRendering(statement) ==
    Between(statement, <<"title =", SP>>, <<COMMA, BSN, "  ", "description =", SP>>)

DescriptionRendering(statement) ==
    LET a == Find(statement, <<COMMA, BSN, "  ", "description =", SP>>, 0)
    IN  Between(SliceFrom(statement, IF a = -1 THEN 0 ELSE a),
                <<"description =", SP>>, <<COMMA, BSN, "  ", "updated_at = NOW()">>)

\* The tokens that open the SET and WHERE clauses of a statement.
Clauses(statement) ==
    [k \in 1..Cardinality({i \in 3..Len(statement) : statement[i - 1] = BSN}) |->
        LET i == CHOOSE j \in 3..Len(statement) :
                     /\ statement[j - 1] = BSN
                     /\ Cardinality({m \in 3..j : statement[m - 1] = BSN}) = k
        IN  IF statement[i] = "  " /\ i < Len(statement) THEN statement[i + 1]
            ELSE statement[i]]

\* The statements of the restoration script on disk that filter WHERE id = 'req_id'.
UpdatesOf(req_id) ==
    SelectSeq(SqlStatements(disk[RESTORATION_FILE], 1),
              LAMBDA st : EndsWith(st, WHERE_ID \o <<QUOTE>> \o req_id \o <<QUOTE, SEMI>>))

\* The INSERT statements of the last run of create_insert_statements.
AllInserts ==
    [k \in 1..Len(inserts.iso27001_inserts \o inserts.iso27002_inserts) |->
        (inserts.iso27001_inserts \o inserts.iso27002_inserts)[k].insert_sql]

\* The backup rows an INSERT statement can stand for: 18 fields, and its id.
RowsOf(insert_sql) ==
    {i \in 1..Len(fixture.reqs) :
        /\ Len(fixture.reqs[i]) >= 18
        /\ LeadingValues(insert_sql, 1) # <<>>
        /\ IsLiteralOf(LeadingValues(insert_sql, 1)[1], fixture.reqs[i][1])}

\* The identifiers the Standard Resolver resolved in the last analysis run.
Resolved ==
    {analysis.target_standards.iso27001_id, analysis.target_standards.iso27002_id,
     analysis.target_standards.cis_ig1_id, analysis.target_standards.cis_ig2_id,
     analysis.target_standards.cis_ig3_id} \ {<<>>}

(***************************************************************************)
(* Claims on the generated statements                                      *)
(***************************************************************************)
\* C4: with the targets resolved by the Standard Resolver from the backup's
\* standards rows, the restoration script holds exactly one UPDATE statement for
\* every requirements row whose standard_id is a resolved target and none for
\* any other row; each sets exactly title, description and updated_at = NOW()
\* and filters WHERE id = the row's id.
C4_OneUpdatePerTargetRow ==
    (restoration.ran /\ analysis.status = "complete") =>
        LET rows == fixture.reqs
            target_rows == {i \in 1..Len(rows) :
                               Len(rows[i]) >= 5 /\ <<rows[i][2]>> \in Resolved}
        IN  /\ Len(SqlStatements(disk[RESTORATION_FILE], 1)) = Cardinality(target_rows)
            /\ \A i \in target_rows :
                   /\ Len(UpdatesOf(rows[i][1])) = 1
                   /\ Clauses(UpdatesOf(rows[i][1])[1])
                          = <<"title =", "description =", "updated_at = NOW()",
                              "WHERE id =">>

\* C5: every field interpolated into a generated statement (title and
\* description of an UPDATE, the 17 columns of an INSERT) is rendered as the
\* bare token NULL if, and only if, its backup value is the sentinel \N.
C5_NullMapping ==
    /\ restoration.ran =>
           \A k \in 1..Len(restoration.backup_requirements) :
               LET e == restoration.backup_requirements[k]
               IN  \A j \in 1..Len(UpdatesOf(e.k)) :
                       /\ (e.v.title = <<SENTINEL>>)
                              <=> (TitleRendering(UpdatesOf(e.k)[j]) = <<"NULL">>)
                       /\ (e.v.description = <<SENTINEL>>)
                              <=> (DescriptionRendering(UpdatesOf(e.k)[j]) = <<"NULL">>)
    /\ inserts.ran =>
           \A k \in 1..Len(AllInserts) :
               /\ Len(RenderedValues(AllInserts[k])) = 17
               /\ \E i \in RowsOf(AllInserts[k]) :
                      \A c \in 1..17 :
                          (fixture.reqs[i][c] = <<SENTINEL>>)
                              <=> (RenderedValues(AllInserts[k])[c] = <<"NULL">>)

\* C6: every requirement the restoration generator targets has its UPDATE
\* statement, and the literal rendered for a title or description in a
\* generated UPDATE or INSERT statement opens with a quote, holds the value
\* with every quote doubled, and closes only where the value ends: read back
\* as SQL it gives the value, and what follows is the statement's own text.
C6_QuotesDoubled ==
    /\ restoration.ran =>
           \A k \in 1..Len(restoration.backup_requirements) :
               LET e == restoration.backup_requirements[k]
               IN  (\E id \in TargetIds : e.v.standard_id = <<id>>) =>
                       /\ Len(UpdatesOf(e.k)) = 1
                       /\ IsLiteralOf(TitleRendering(UpdatesOf(e.k)[1]), e.v.title)
                       /\ IsLiteralOf(DescriptionRendering(UpdatesOf(e.k)[1]),
                                      e.v.description)
    /\ inserts.ran =>
           \A k \in 1..Len(AllInserts) :
               /\ Len(LeadingValues(AllInserts[k], 5)) = 5
               /\ \E i \in RowsOf(AllInserts[k]) :
                      /\ IsLiteralOf(LeadingValues(AllInserts[k], 5)[4], fixture.reqs[i][4])
                      /\ IsLiteralOf(LeadingValues(AllInserts[k], 5)[5], fixture.reqs[i][5])

\* C6 happens: both generators ran on a row whose title holds a quote, and
\* both rendered a statement for it.
C6_Witness ==
    /\ restoration.ran /\ inserts.ran
    /\ \E k \in 1..Len(restoration.backup_requirements) :
           /\ QUOTE \in {restoration.backup_requirements[k].v.title[i] :
                            i \in 1..Len(restoration.backup_requirements[k].v.title)}
           /\ Len(UpdatesOf(restoration.backup_requirements[k].k)) = 1
    /\ \E k \in 1..Len(AllInserts) : \E i \in RowsOf(AllInserts[k]) :
           QUOTE \in {fixture.reqs[i][4][m] : m \in 1..Len(fixture.reqs[i][4])}

\* C7: in the VALUES list of an INSERT each of parent_requirement_id, tags,
\* official_description, implementation_guidance, audit_ready_guidance and
\* section is NULL when its backup value is the sentinel, and otherwise a
\* quoted literal holding the value with every quote doubled.
C7_NullableFieldsRendered ==
    inserts.ran =>
        \A k \in 1..Len(AllInserts) :
            /\ Len(RenderedValues(AllInserts[k])) = 17
            /\ \E i \in RowsOf(AllInserts[k]) :
                   \A c \in NullableColumns :
                       IF fixture.reqs[i][c] = <<SENTINEL>>
                       THEN RenderedValues(AllInserts[k])[c] = <<"NULL">>
                       ELSE IsLiteralOf(RenderedValues(AllInserts[k])[c],
                                        fixture.reqs[i][c])

(***************************************************************************)
(* Claims on the Standard Resolver                                         *)
(***************************************************************************)
TargetFields == <<"iso27001_id", "iso27002_id", "cis_ig1_id", "cis_ig2_id", "cis_ig3_id">>
TargetTokens == << <<"iso", "27001">>, <<"iso", "27002">>, <<"cis", "ig1">>,
                   <<"cis", "ig2">>, <<"cis", "ig3">> >>

\* name holds the framework token and the sub-token of target t.
HasBoth(t, name) ==
    /\ Contains(Lower(name), <<TargetTokens[t][1]>>)
    /\ Contains(Lower(name), <<TargetTokens[t][2]>>)

\* name counts for target t: it holds both tokens of t and of no earlier target.
CountsFor(t, name) == HasBoth(t, name) /\ \A u \in 1..(t - 1) : ~HasBoth(u, name)

\* "name version" of a standards row of the backup.
RowName(row) == Strip(row[2] \o <<SP>> \o row[3])

\* map holds one entry per standard id of rows, at the position of the id's
\* first row and with the "name version" of its last row.
MapOfRows(map, rows) ==
    LET RowsOfId(id) == {r \in 1..Len(rows) : rows[r][1] = id}
    IN  /\ \A r \in 1..Len(rows) : \E i \in 1..Len(map) : map[i].k = rows[r][1]
        /\ \A i \in 1..Len(map) :
               /\ RowsOfId(map[i].k) # {}
               /\ map[i].v = RowName(rows[SetMax(RowsOfId(map[i].k))])
               /\ \A j \in 1..(i - 1) :
                      /\ RowsOfId(map[j].k) # {}
                      /\ SetMin(RowsOfId(map[j].k)) < SetMin(RowsOfId(map[i].k))

\* C8, as stated: a target is resolved only to a standard whose lower-cased
\* "name version" holds both tokens; among several matching rows the first in
\* backup order gives the identifier; without a match the target stays unset
\* and the run goes on.
C8_FirstMatchWins ==
    analysis.status = "complete" =>
        \A t \in 1..5 :
            LET rows == fixture.stds
                hits == {i \in 1..Len(rows) : HasBoth(t, RowName(rows[i]))}
                id == analysis.target_standards[TargetFields[t]]
            IN  /\ hits = {} => id = <<>>
                /\ id # <<>> => id = <<rows[SetMin(hits)][1]>>

\* C8, amended: a target is resolved only to a standard whose lower-cased
\* "name version" holds both tokens; a standard counts for the first target,
\* in the order iso27001, iso27002, cis_ig1, cis_ig2, cis_ig3, whose tokens
\* it holds; among several standards counting for a target the last entry of
\* the standard map gives the identifier, the map holding one entry per
\* standard id, placed by the id's first row and named by its last; without
\* one the target stays unset and the run goes on.
C8_LastMatchWins ==
    analysis.status = "complete" =>
        \A t \in 1..5 :
            LET map == analysis.data.standard_map
                hits == {i \in 1..Len(map) : CountsFor(t, map[i].v)}
                id == analysis.target_standards[TargetFields[t]]
            IN  /\ id = IF hits = {} THEN <<>> ELSE <<map[SetMax(hits)].k>>
                /\ id # <<>> =>
                       \E i \in 1..Len(map) : id = <<map[i].k>> /\ HasBoth(t, map[i].v)
                /\ MapOfRows(map, fixture.stds)

\* C8 happens: two standards with different ids match iso27001, the analysis
\* ran to its end and resolved the later one, while another target stayed unset.
C8_Witness ==
    /\ analysis.status = "complete"
    /\ Len(analysis.data.standard_map) = 2
    /\ \A i \in 1..2 : CountsFor(1, analysis.data.standard_map[i].v)
    /\ analysis.target_standards.iso27001_id = <<analysis.data.standard_map[2].k>>
    /\ analysis.target_standards.iso27002_id = <<>>

(***************************************************************************)
(* Claims on the backup parsers                                            *)
(***************************************************************************)
RECURSIVE TotalGrouped(_)
\* Number of records over all the lists of requirements_by_standard.
TotalGrouped(by_standard) ==
    IF by_standard = <<>> THEN 0
    ELSE Len(by_standard[1].v) + TotalGrouped(Tail(by_standard))

\* Number of data lines of the requirements block that are not blank.
NonBlankLines ==
    Cardinality({i \in 1..Len(fixture.reqs) : Strip(RowLine(fixture.reqs[i])) # <<>>})

\* C9: on a backup without the 'COPY public.requirements_library' marker each
\* of the three parsing scripts returns an error or an empty result, builds no
\* record, generates no SQL and aborts: it leaves no output file.
C9_MissingMarkerAborts ==
    ~Contains(backup, MARKER_REQ) =>
        /\ analysis.status # "not run" =>
               analysis.status = "exit 1" /\ ~analysis.data.found
        /\ restoration.ran =>
               /\ restoration.backup_requirements = <<>>
               /\ RESTORATION_FILE \notin DOMAIN disk
        /\ inserts.ran =>
               /\ inserts.iso27001_inserts = <<>> /\ inserts.iso27002_inserts = <<>>
               /\ ISO27001_FILE \notin DOMAIN disk
               /\ ISO27002_FILE \notin DOMAIN disk

\* C10: on a backup whose requirements block holds N non-blank data lines
\* before its terminating \. line, the restoration parser returns N records
\* keyed by requirement id and the analysis parser N records grouped by
\* standard id.
C10_RowCountPreserved ==
    Contains(backup, MARKER_REQ) =>
        /\ restoration.ran => Len(restoration.backup_requirements) = NonBlankLines
        /\ analysis.status # "not run" =>
               TotalGrouped(analysis.data.requirements_by_standard) = NonBlankLines

(***************************************************************************)
(* The INSERT files: backups of full rows for the two INSERT targets        *)
(***************************************************************************)
MaxInsertRows == 3
SampleRows == 21

\* Full row number i: id r<i>, all nullable fields null.
InsertRow(i, std, control, description) ==
    [FullRow("r", std, control, <<"a">>, description, AllNull)
        EXCEPT ![1] = <<"r">> \o Decimal(i)]

InsertKinds ==
    ({ISO27001_UUID, ISO27002_UUID}
        \X {<<"2", ".", "1">>, <<"1", "0", ".", "1">>, <<"1", ".", "2">>}
        \X {<<"b">>})
    \cup {<<ISO27002_UUID, <<"3", ".", "1">>, <<"x", "\\", EOD>>>>}

InsertFixtures ==
    { Fixture(TRUE, <<StdRow(ISO27002_UUID, Iso27002Name)>>, TRUE,
              [i \in 1..Len(ks) |-> InsertRow(i, ks[i][1], ks[i][2], ks[i][3])])
      : ks \in SeqsOf(InsertKinds, 0, MaxInsertRows)
                 \cup {[i \in 1..SampleRows |->
                           <<ISO27002_UUID, <<"5", ".">> \o Decimal(i), <<"b">>>>]} }

\* create_insert_statements on its own.
InitInsert ==
    /\ fixture \in InsertFixtures
    /\ backup = BackupText(fixture)
    /\ Fresh

NextInsert == RunCreateInsertStatements

SpecInsert == InitInsert /\ [][NextInsert]_vars

(***************************************************************************)
(* Claims on the INSERT files                                              *)
(***************************************************************************)
RECURSIVE InsertStatements(_, _)
\* The whole INSERT statements of s from position from on, in order.
InsertStatements(s, from) ==
    LET starts == {i \in from..Len(s) : s[i] = "INSERT INTO requirements_library ("}
        i == SetMin(starts)
        e == StatementEnd(s, i)
    IN  IF starts = {} \/ e = 0 THEN <<>>
        ELSE <<SubSeq(s, i, e)>> \o InsertStatements(s, e + 1)

\* Code point of the characters control ids are made of.
CharCode(t) == IF t = "." THEN 46 ELSE 48 + DigitValue(t)

\* a <= b as strings: at the first difference a has the lower character, or
\* a is a prefix of b.
StringLeq(a, b) ==
    \/ /\ Len(a) <= Len(b)
       /\ \A j \in 1..Len(a) : a[j] = b[j]
    \/ \E i \in 1..Len(a) :
           /\ i <= Len(b)
           /\ \A j \in 1..(i - 1) : a[j] = b[j]
           /\ CharCode(a[i]) < CharCode(b[i])

\* The full rows of the backup that belong to target std.
FullRowsOf(std) ==
    {i \in 1..Len(fixture.reqs) :
        Len(fixture.reqs[i]) >= 18 /\ fixture.reqs[i][2] = <<std>>}

\* The file holds min(limit, n) statements, each for a row of its own among
\* the n of rows, in ascending string order of control_id, and no row left
\* out comes before a row written.
HoldsFirstSorted(file, rows, limit) ==
    LET statements == InsertStatements(disk[file], 1)
        m == Len(statements)
        RowOf(k) == CHOOSE i \in rows :
                        IsLiteralOf(LeadingValues(statements[k], 1)[1], fixture.reqs[i][1])
        written == {RowOf(k) : k \in 1..m}
    IN  /\ m = IF Cardinality(rows) < limit THEN Cardinality(rows) ELSE limit
        /\ \A k \in 1..m :
               /\ LeadingValues(statements[k], 1) # <<>>
               /\ \E i \in rows :
                      IsLiteralOf(LeadingValues(statements[k], 1)[1], fixture.reqs[i][1])
        /\ Cardinality(written) = m
        /\ \A k \in 1..(m - 1) :
               StringLeq(fixture.reqs[RowOf(k)][3], fixture.reqs[RowOf(k + 1)][3])
        /\ \A i \in written : \A j \in rows \ written :
               StringLeq(fixture.reqs[i][3], fixture.reqs[j][3])

\* C11: with n full rows of the second INSERT target in the backup,
\* iso27002_inserts_sample.sql holds exactly the first min(20, n) INSERT
\* statements in ascending string order of control_id, and
\* iso27001_inserts.sql holds all rows of the first target in that order.
C11_SortedSample ==
    inserts.ran =>
        /\ HoldsFirstSorted(ISO27002_FILE, FullRowsOf(ISO27002_UUID), 20)
        /\ HoldsFirstSorted(ISO27001_FILE, FullRowsOf(ISO27001_UUID),
                            Len(fixture.reqs))

(***************************************************************************)
(* Running the pipeline again, on another backup                            *)
(***************************************************************************)
RerunSizes == {0, 1, 2, BulkRows}

RerunFixtures ==
    { Fixture(TRUE, <<StdRow(ISO27001_UUID, Iso27001Name)>>, TRUE,
              [i \in 1..n |->
                  LightRow(PipeIds[i], ISO27001_UUID, <<"4", ".">> \o Decimal(i),
                           <<"a">>, <<"b">>)])
      : n \in RerunSizes }

InitRerun ==
    /\ fixture \in RerunFixtures
    /\ backup = BackupText(fixture)
    /\ Fresh

NextRerun ==
    \/ \E f \in RerunFixtures : ReplaceBackup(f)
    \/ RunExecuteRestoration
    \/ RunExecuteSqlChunks
    \/ RunBulkRestoreAll
    \/ RunCompleteRestoration

SpecRerun == InitRerun /\ [][NextRerun]_vars

\* C12: after any sequence of Batcher runs in the directory, the
\* sql_chunk_NN.sql files on disk are exactly the chunks of the latest run, by
\* name and by content, and the chunk counter of complete_restoration.main,
\* run on this directory, counts the chunks of that run.
C12_ChunkFilesAreLatestRun ==
    batch.ran =>
        /\ GlobChunks(disk) = {ChunkFileName(i) : i \in 1..Len(batch.chunks)}
        /\ \A i \in 1..Len(batch.chunks) : disk[ChunkFileName(i)] = batch.chunks[i]
        /\ (completion.ran /\ completion.chunk_count = CountChunks(disk)) =>
               completion.chunk_count = Len(batch.chunks)

====
